---- MODULE Spec2Model ----
(***************************************************************************)
(* Model of the two rule-merging scripts of w-1349/scripts:                *)
(*   scripts/loon.py     typed rules (DOMAIN, DOMAIN-SUFFIX, IP-CIDR)      *)
(*   scripts/adguard.py  AdGuard Home rules (@@ allow, || block, other)    *)
(* Text is modelled as sequences of one-character strings, so that         *)
(* split, strip, upper/lower, join and the string tests of the code are    *)
(* computed on the characters as the code computes them.                   *)
(***************************************************************************)
EXTENDS Integers, Sequences, FiniteSets, TLC

(***************************************************************************)
(* Text helpers (Python str methods used by the scripts)                   *)
(***************************************************************************)
Lowers == <<"a","b","c","d","e","f","g","h","i","j","k","l","m",
            "n","o","p","q","r","s","t","u","v","w","x","y","z">>

Uppers == <<"A","B","C","D","E","F","G","H","I","J","K","L","M",
            "N","O","P","Q","R","S","T","U","V","W","X","Y","Z">>

Digits == <<"0","1","2","3","4","5","6","7","8","9">>

Range(s) == { s[i] : i \in DOMAIN s }

Max(a, b) == IF a >= b THEN a ELSE b

Min(a, b) == IF a <= b THEN a ELSE b

\* str.upper() / str.lower(), character by character
UpperOf == [c \in Range(Lowers) |-> Uppers[CHOOSE i \in DOMAIN Lowers : Lowers[i] = c]]

LowerOf == [c \in Range(Uppers) |-> Lowers[CHOOSE i \in DOMAIN Uppers : Uppers[i] = c]]

UpperChar(c) == IF c \in DOMAIN UpperOf THEN UpperOf[c] ELSE c

LowerChar(c) == IF c \in DOMAIN LowerOf THEN LowerOf[c] ELSE c

Upper(s) == [i \in DOMAIN s |-> UpperChar(s[i])]

Lower(s) == [i \in DOMAIN s |-> LowerChar(s[i])]

\* str.strip(): drop leading and trailing blanks
RECURSIVE FirstInk(_, _)
FirstInk(s, i) == IF i > Len(s) \/ s[i] # " " THEN i ELSE FirstInk(s, i + 1)

RECURSIVE LastInk(_, _)
LastInk(s, i) == IF i < 1 \/ s[i] # " " THEN i ELSE LastInk(s, i - 1)

Strip(s) == SubSeq(s, FirstInk(s, 1), LastInk(s, Len(s)))

\* str.startswith(p) / str.endswith(p)
StartsWith(s, p) == Len(p) <= Len(s) /\ SubSeq(s, 1, Len(p)) = p

EndsWith(s, p) == Len(p) <= Len(s) /\ SubSeq(s, Len(s) - Len(p) + 1, Len(s)) = p

\* p in s, for a text p
Contains(s, p) ==
    \E i \in 1..(Len(s) - Len(p) + 1) : SubSeq(s, i, i + Len(p) - 1) = p

\* str.split(sep) for a one-character separator: always at least one part;
\* SplitFrom splits s from position i on, the current part starting at start
RECURSIVE SplitFrom(_, _, _, _)
SplitFrom(s, sep, i, start) ==
    IF i > Len(s) THEN <<SubSeq(s, start, Len(s))>>
    ELSE IF s[i] = sep
    THEN <<SubSeq(s, start, i - 1)>> \o SplitFrom(s, sep, i + 1, i + 1)
    ELSE SplitFrom(s, sep, i + 1, start)

Split(s, sep) == SplitFrom(s, sep, 1, 1)

\* sep.join(parts)
RECURSIVE Join(_, _)
Join(parts, sep) ==
    IF parts = <<>> THEN <<>>
    ELSE IF Len(parts) = 1 THEN parts[1]
    ELSE parts[1] \o sep \o Join(Tail(parts), sep)

\* reversed(seq)
Reversed(s) == [i \in DOMAIN s |-> s[Len(s) + 1 - i]]

\* s.replace(old, new) for a removed token (new = ''), leftmost first
RECURSIVE Remove(_, _)
Remove(s, old) ==
    IF s = <<>> THEN <<>>
    ELSE IF StartsWith(s, old) THEN Remove(SubSeq(s, Len(old) + 1, Len(s)), old)
    ELSE <<Head(s)>> \o Remove(Tail(s), old)

\* s.count(c) for a character c
Count(s, c) == Cardinality({ i \in DOMAIN s : s[i] = c })

\* int(text): decimal digits only; -1 stands for ValueError
DigitOf == [c \in Range(Digits) |-> (CHOOSE d \in DOMAIN Digits : Digits[d] = c) - 1]

IsDecimal(s) == s # <<>> /\ \A i \in DOMAIN s : s[i] \in DOMAIN DigitOf

DigitVal(c) == DigitOf[c]

RECURSIVE DecimalUpTo(_, _)
DecimalUpTo(s, n) ==
    IF n = 0 THEN 0 ELSE 10 * DecimalUpTo(s, n - 1) + DigitVal(s[n])

DecimalVal(s) == DecimalUpTo(s, Len(s))

\* the comparison of two texts by code point, as sorted() compares str
CharOrder == <<" ", "!", "#", "$", ",", "-", ".", "/">> \o Digits
             \o <<"@">> \o Uppers \o <<"^">> \o Lowers \o <<"|">>

RankOf == [c \in Range(CharOrder) |-> CHOOSE i \in DOMAIN CharOrder : CharOrder[i] = c]

CharRank(c) == RankOf[c]

\* a < b from position i on: decided at the first position where they
\* differ, else the shorter text is the smaller
RECURSIVE StrLessFrom(_, _, _)
StrLessFrom(a, b, i) ==
    IF i > Len(b) THEN FALSE
    ELSE IF i > Len(a) THEN TRUE
    ELSE IF a[i] = b[i] THEN StrLessFrom(a, b, i + 1)
    ELSE CharRank(a[i]) < CharRank(b[i])

StrLess(a, b) == StrLessFrom(a, b, 1)

(***************************************************************************)
(* loon.py: parse_rule, normalize                                          *)
(***************************************************************************)
T_DOMAIN == <<"D","O","M","A","I","N">>

T_DOMAIN_SUFFIX == <<"D","O","M","A","I","N","-","S","U","F","F","I","X">>

T_IP_CIDR == <<"I","P","-","C","I","D","R">>

T_NO_RESOLVE == <<"n","o","-","r","e","s","o","l","v","e">>

\* Python's None, for a text-valued result
None == <<>>

\* ipaddress: one octet of a dotted quad (decimal, at most 3 digits, <= 255)
ValidOctet(o) == IsDecimal(o) /\ Len(o) <= 3 /\ DecimalVal(o) <= 255

\* ipaddress: a prefix length given as decimal digits, 0..32.  (A dotted
\* netmask after the slash is not modelled; no modelled line carries one.)
ValidPrefix(p) == IsDecimal(p) /\ Len(p) <= 2 /\ DecimalVal(p) <= 32

\* does ipaddress.IPv4Network(text, strict=False) return (TRUE) or raise
\* ValueError (FALSE)
ValidIPv4Network(text) ==
    LET sp == Split(text, "/")
        octets == Split(sp[1], ".")
    IN  /\ Len(sp) <= 2
        /\ Len(octets) = 4
        /\ \A i \in 1..4 : ValidOctet(octets[i])
        /\ Len(sp) = 2 => ValidPrefix(sp[2])

\* number of network bits falling in octet i (1..4) for a prefix length
KeepBits(plen, i) == Max(0, Min(8, plen - 8 * (i - 1)))

\* ipaddress.IPv4Network(text, strict=False): host bits are masked off; a
\* value without '/' is a /32 network
IPv4Network(text) ==
    LET sp == Split(text, "/")
        octets == Split(sp[1], ".")
        plen == IF Len(sp) = 2 THEN DecimalVal(sp[2]) ELSE 32
    IN  [addr |-> [i \in 1..4 |->
                     LET o == DecimalVal(octets[i])
                     IN  o - (o % (2 ^ (8 - KeepBits(plen, i))))],
         plen |-> plen]

\* network_address and broadcast_address as dotted quads
BroadcastAddress(n) ==
    [i \in 1..4 |-> n.addr[i] + (2 ^ (8 - KeepBits(n.plen, i))) - 1]

\* address comparison a <= b (most significant octet first)
RECURSIVE AddrLeqFrom(_, _, _)
AddrLeqFrom(a, b, i) ==
    IF i > 4 THEN TRUE
    ELSE IF a[i] # b[i] THEN a[i] < b[i]
    ELSE AddrLeqFrom(a, b, i + 1)

AddrLeq(a, b) == AddrLeqFrom(a, b, 1)

\* ipaddress: a.supernet_of(b)
supernet_of(a, b) ==
    /\ AddrLeq(a.addr, b.addr)
    /\ AddrLeq(BroadcastAddress(b), BroadcastAddress(a))

\* the value check of a DOMAIN / DOMAIN-SUFFIX rule
DomainChars == Range(Lowers) \cup Range(Digits) \cup {"-", "."}

ValidDomain(rval) ==
    /\ rval # <<>>
    /\ \A i \in DOMAIN rval : rval[i] \in DomainChars
    /\ ~StartsWith(rval, <<".">>)
    /\ ~EndsWith(rval, <<".">>)
    /\ ~Contains(rval, <<".", ".">>)

\* the 4-tuple parse_rule returns: (rtype, rval, ok, flag); flag is
\* is_leading_dot for a rejected line and has_no_resolve for an IP-CIDR rule
ParseResult(rtype, rval, ok, flag) ==
    [rtype |-> rtype, rval |-> rval, ok |-> ok, flag |-> flag]

parse_rule(rawline) ==
    LET line == Strip(rawline)
        raw == Split(line, ",")
        parts == [i \in DOMAIN raw |-> Strip(raw[i])]
        rtype == Upper(parts[1])
        rval == Strip(Lower(parts[2]))
        has_no_resolve ==
            /\ Len(parts) >= 3
            /\ \E i \in 3..Len(parts) : Lower(Strip(parts[i])) = T_NO_RESOLVE
    IN  IF \/ line = <<>>
           \/ StartsWith(line, <<"#">>)
           \/ StartsWith(line, <<"/", "/">>)
           \/ StartsWith(line, <<"!">>)
        THEN ParseResult(None, None, FALSE, FALSE)
        ELSE IF StartsWith(line, <<".">>)
        THEN ParseResult(None, None, FALSE, TRUE)
        ELSE IF Len(parts) < 2
        THEN ParseResult(None, None, FALSE, FALSE)
        ELSE IF rtype \notin {T_DOMAIN, T_DOMAIN_SUFFIX, T_IP_CIDR}
        THEN ParseResult(None, None, FALSE, FALSE)
        ELSE IF rval = <<>>
        THEN ParseResult(None, None, FALSE, FALSE)
        ELSE IF rtype = T_IP_CIDR
        THEN IF ~ValidIPv4Network(rval)
             THEN ParseResult(None, None, FALSE, FALSE)
             ELSE ParseResult(rtype, rval, TRUE, has_no_resolve)
        ELSE IF ~ValidDomain(rval)
        THEN ParseResult(None, None, FALSE, FALSE)
        ELSE ParseResult(rtype, rval, TRUE, FALSE)

\* normalize(rtype, rval, has_no_resolve): both IP-CIDR branches append
\* ",no-resolve"
normalize(rtype, rval, has_no_resolve) ==
    IF rtype = T_IP_CIDR
    THEN IF has_no_resolve
         THEN rtype \o <<",">> \o rval \o <<",">> \o T_NO_RESOLVE
         ELSE rtype \o <<",">> \o rval \o <<",">> \o T_NO_RESOLVE
    ELSE rtype \o <<",">> \o rval

(***************************************************************************)
(* loon.py: DomainTrie.  The nested dict is the set of the label paths     *)
(* that exist below the root (nodes; <<>> is the root) and the set of the  *)
(* paths whose node holds the '#' terminator key (term).                   *)
(***************************************************************************)
EmptyTrie == [nodes |-> {<<>>}, term |-> {}]

\* DomainTrie.add(suffix)
TrieAdd(trie, suffix) ==
    LET path == Reversed(Split(suffix, "."))
    IN  [nodes |-> trie.nodes \cup { SubSeq(path, 1, k) : k \in 0..Len(path) },
         term  |-> trie.term \cup {path}]

\* the for loop of DomainTrie.is_covered from its i-th label on; matched is
\* the list of labels walked so far, which is also the path of `node`
RECURSIVE CoveredWalk(_, _, _, _)
CoveredWalk(trie, parts, i, matched) ==
    IF i > Len(parts)
    THEN [covered |-> matched \in trie.term,
          by |-> IF matched # <<>>
                 THEN Join(Reversed(matched), <<".">>) ELSE None]
    ELSE IF matched \in trie.term /\ matched # <<>>
    THEN [covered |-> TRUE, by |-> Join(Reversed(matched), <<".">>)]
    ELSE IF Append(matched, parts[i]) \notin trie.nodes
    THEN [covered |-> FALSE, by |-> None]
    ELSE CoveredWalk(trie, parts, i + 1, Append(matched, parts[i]))

\* is_covered as it would be if the match were made on the text instead of
\* on whole labels: any inserted suffix the domain text ends with covers it
is_covered_partial(trie, domain) ==
    LET hits == { t \in trie.term : EndsWith(domain, Join(Reversed(t), <<".">>)) }
    IN  IF hits = {}
        THEN [covered |-> FALSE, by |-> None]
        ELSE [covered |-> TRUE,
              by |-> Join(Reversed(CHOOSE t \in hits : TRUE), <<".">>)]

\* is_covered as it would be if the terminator of the last node were not
\* looked at: a domain is never covered by the suffix equal to it
is_covered_strict(trie, domain) ==
    LET r == CoveredWalk(trie, Reversed(Split(domain, ".")), 1, <<>>)
    IN  IF r.covered /\ r.by = domain
        THEN [covered |-> FALSE, by |-> None]
        ELSE r

\* DomainTrie.is_covered(domain) -> (covered, by)
is_covered(trie, domain) ==
    CoveredWalk(trie, Reversed(Split(domain, ".")), 1, <<>>)

(***************************************************************************)
(* loon.py: IPCidrManager.  nets is the list of (network, cidr) pairs.     *)
(***************************************************************************)
\* add as it would be without the removal of the networks the new one covers
IPCidrManager_add_noevict(nets, cidr) ==
    LET network == IPv4Network(cidr)
        hits == { i \in DOMAIN nets : supernet_of(nets[i].net, network) }
    IN  IF hits # {}
        THEN [covered |-> TRUE,
              by |-> nets[CHOOSE i \in hits : \A j \in hits : i <= j].str,
              nets |-> nets]
        ELSE [covered |-> FALSE,
              by |-> None,
              nets |-> Append(nets, [net |-> network, str |-> cidr])]

\* add as it would be if it returned the new network's own text, not the
\* covering network's, when the new network is covered
IPCidrManager_add_cites_new(nets, cidr) ==
    LET network == IPv4Network(cidr)
        hits == { i \in DOMAIN nets : supernet_of(nets[i].net, network) }
    IN  IF hits # {}
        THEN [covered |-> TRUE, by |-> cidr, nets |-> nets]
        ELSE [covered |-> FALSE,
              by |-> None,
              nets |-> Append(SelectSeq(nets,
                                 LAMBDA e : ~supernet_of(network, e.net)),
                              [net |-> network, str |-> cidr])]

\* IPCidrManager.add(cidr) -> (covered, by) and the new self.nets
IPCidrManager_add(nets, cidr) ==
    LET network == IPv4Network(cidr)
        hits == { i \in DOMAIN nets : supernet_of(nets[i].net, network) }
    IN  IF hits # {}
        THEN [covered |-> TRUE,
              by |-> nets[CHOOSE i \in hits : \A j \in hits : i <= j].str,
              nets |-> nets]
        ELSE [covered |-> FALSE,
              by |-> None,
              nets |-> Append(SelectSeq(nets,
                                 LAMBDA e : ~supernet_of(network, e.net)),
                              [net |-> network, str |-> cidr])]

(***************************************************************************)
(* Input universe: the raw text lines a fetched source may carry           *)
(***************************************************************************)
\* DOMAIN-SUFFIX,b.c
L_suffix_bc == <<"D","O","M","A","I","N","-","S","U","F","F","I","X",",","b",".","c">>

\* domain-suffix, B.C
L_suffix_bc_alt == <<"d","o","m","a","i","n","-","s","u","f","f","i","x",","," ","B",".","C">>

\* DOMAIN-SUFFIX,a.b.c
L_suffix_abc == <<"D","O","M","A","I","N","-","S","U","F","F","I","X",",","a",".","b",".","c">>

\* DOMAIN,a.b.c
L_domain_abc == <<"D","O","M","A","I","N",",","a",".","b",".","c">>

\* DOMAIN,b.c
L_domain_bc == <<"D","O","M","A","I","N",",","b",".","c">>

\* DOMAIN,ab.c
L_domain_ab_c == <<"D","O","M","A","I","N",",","a","b",".","c">>

\* IP-CIDR,10.0.0.0/8
L_ip_10_8 == <<"I","P","-","C","I","D","R",",","1","0",".","0",".","0",".","0","/","8">>

\* IP-CIDR,10.1.0.0/16
L_ip_10_1_16 == <<"I","P","-","C","I","D","R",",","1","0",".","1",".","0",".","0","/","1","6">>

\* IP-CIDR,10.1.2.3/8
L_ip_host_8 == <<"I","P","-","C","I","D","R",",","1","0",".","1",".","2",".","3","/","8">>

\* IP-CIDR,192.168.0.0/24,no-resolve
L_ip_192_24_nr == <<"I","P","-","C","I","D","R",",","1","9","2",".","1","6","8",".","0",".","0","/","2","4",",","n","o","-","r","e","s","o","l","v","e">>

\* IP-CIDR,10.1.2.3
L_ip_bare == <<"I","P","-","C","I","D","R",",","1","0",".","1",".","2",".","3">>

\* .b.c
L_leading_dot == <<".","b",".","c">>

\* HOST,b.c
L_unsupported == <<"H","O","S","T",",","b",".","c">>

\* # c
L_comment == <<"#"," ","c">>

\* IP-CIDR,10.0.0.0/33
L_bad_cidr == <<"I","P","-","C","I","D","R",",","1","0",".","0",".","0",".","0","/","3","3">>

\* DOMAIN,b..c
L_bad_domain == <<"D","O","M","A","I","N",",","b",".",".","c">>

\* ||b.c^
A_block_bc == <<"|","|","b",".","c","^">>

\* ||a.b.c^
A_block_abc == <<"|","|","a",".","b",".","c","^">>

\* ||a.c^
A_block_ac == <<"|","|","a",".","c","^">>

\* ||B.c^$i
A_block_bc_m == <<"|","|","B",".","c","^","$","i">>

\* @@||a.b.c^
A_allow_abc == <<"@","@","|","|","a",".","b",".","c","^">>

\* @@||b.c^
A_allow_bc == <<"@","@","|","|","b",".","c","^">>

\* /ad/
A_other == <<"/","a","d","/">>

\* ! c
A_comment == <<"!"," ","c">>

\* the lines a run of loon.py draws from.  main() treats a comment, an invalid
\* CIDR and an invalid domain exactly as the unsupported line (counted in
\* total only), so L_unsupported stands for the four in a run.
LoonLines ==
    {L_suffix_bc,
     L_suffix_bc_alt,
     L_suffix_abc,
     L_domain_abc,
     L_domain_bc,
     L_domain_ab_c,
     L_ip_10_8,
     L_ip_10_1_16,
     L_ip_host_8,
     L_ip_192_24_nr,
     L_ip_bare,
     L_leading_dot,
     L_unsupported}

\* every line the parser is given on its own: the lines of a run and the
\* other rejected forms
ParserLines == LoonLines \cup {L_comment, L_bad_cidr, L_bad_domain}

AghLines ==
    {A_block_bc,
     A_block_abc,
     A_block_ac,
     A_block_bc_m,
     A_allow_abc,
     A_allow_bc,
     A_other,
     A_comment}

(***************************************************************************)
(* Bounds of the model                                                     *)
(***************************************************************************)
\* lines fetched in one run, over all sources
MaxLines == 3

\* all sequences over S of length 0..n
SeqsUpTo(S, n) == UNION { [1..k -> S] : k \in 0..n }

(***************************************************************************)
(* Sorting as list.sort / sorted do it (stable)                            *)
(***************************************************************************)
\* insert e into a list already sorted by ascending key, after its equals
RECURSIVE InsertAsc(_, _)
InsertAsc(sorted, e) ==
    IF sorted = <<>> THEN <<e>>
    ELSE IF e.key < Head(sorted).key THEN <<e>> \o sorted
    ELSE <<Head(sorted)>> \o InsertAsc(Tail(sorted), e)

\* insert e into a list already sorted by descending key, after its equals
RECURSIVE InsertDesc(_, _)
InsertDesc(sorted, e) ==
    IF sorted = <<>> THEN <<e>>
    ELSE IF e.key > Head(sorted).key THEN <<e>> \o sorted
    ELSE <<Head(sorted)>> \o InsertDesc(Tail(sorted), e)

\* list.sort(key=...) over records [key, item]
RECURSIVE SortAscFrom(_, _)
SortAscFrom(keyed, acc) ==
    IF keyed = <<>> THEN acc
    ELSE SortAscFrom(Tail(keyed), InsertAsc(acc, Head(keyed)))

\* list.sort(key=..., reverse=True) over records [key, item]: descending
\* keys, equal keys keep their original order
RECURSIVE SortDescFrom(_, _)
SortDescFrom(keyed, acc) ==
    IF keyed = <<>> THEN acc
    ELSE SortDescFrom(Tail(keyed), InsertDesc(acc, Head(keyed)))

Items(keyed) == [i \in DOMAIN keyed |-> keyed[i].item]

\* sorted(list of str)
RECURSIVE InsertText(_, _)
InsertText(sorted, t) ==
    IF sorted = <<>> THEN <<t>>
    ELSE IF StrLess(t, Head(sorted)) THEN <<t>> \o sorted
    ELSE <<Head(sorted)>> \o InsertText(Tail(sorted), t)

RECURSIVE SortedFrom(_, _)
SortedFrom(texts, acc) ==
    IF texts = <<>> THEN acc
    ELSE SortedFrom(Tail(texts), InsertText(acc, Head(texts)))

Sorted(texts) == SortedFrom(texts, <<>>)

(***************************************************************************)
(* State                                                                   *)
(***************************************************************************)
VARIABLES
    script,          \* which script runs: "loon" or "adguard"
    pc,              \* position of main()
    srcIdx,          \* index of the source the fetch loop is at
    source_stats,    \* loon: source_stats; adguard: source_stats_list
    files,           \* the files written so far
    \* loon.py main()
    all_rules, unique, seen, exact_dup,
    trie, ip_mgr,
    final_domains, final_suffixes, final_ips,
    cover_logs, domain_covered, ip_covered,
    final_rules,
    \* adguard.py main()
    all_raw_rules, unique_rules, cross_dedup,
    white_final, white_removed, black_final, black_removed, other_list,
    \* a structure used on its own, outside a run of main()
    seen_domains,    \* adguard.py apply_containment_dedup: seen_domains
    decision         \* the last query or insertion and what it returned

loonVars ==
    <<all_rules, unique, seen, exact_dup, trie, ip_mgr,
      final_domains, final_suffixes, final_ips,
      cover_logs, domain_covered, ip_covered>>

aghVars ==
    <<all_raw_rules, unique_rules, cross_dedup,
      white_final, white_removed, black_final, black_removed, other_list>>

soloVars == <<seen_domains, decision>>

vars ==
    <<script, pc, srcIdx, source_stats, files, final_rules, loonVars, aghVars,
      soloVars>>

\* loon.py RULE_SOURCES (names), OUTPUT_FILE, AUDIT_LOG_FILE
RULE_SOURCES == <<"anti-ad", "adrules">>

OUTPUT_FILE == "Loon.lsr"

AUDIT_LOG_FILE == "Loon.log"

\* adguard.py AGH_RULE_NAMES, AGH_OUTPUT_FILE, REMOVED_LOG_FILE
AGH_RULE_NAMES == <<"adrules", "anti-ad">>

AGH_OUTPUT_FILE == "adguard.txt"

REMOVED_LOG_FILE == "adguard.log"

(***************************************************************************)
(* loon.py main(): fetching and parsing (COLLECTING)                       *)
(***************************************************************************)
\* parse_rule(line) for every line of the input universe (tabulated once)
ParsedLine == [l \in ParserLines |-> parse_rule(l)]

\* the has_no_resolve that main() computes again for an accepted line
HasNoResolve(line, rtype) ==
    LET raw == Split(line, ",")
        parts == [i \in DOMAIN raw |-> Strip(raw[i])]
    IN  IF rtype = T_IP_CIDR
        THEN /\ Len(parts) >= 3
             /\ \E i \in 3..Len(parts) : Lower(Strip(parts[i])) = T_NO_RESOLVE
        ELSE FALSE

\* the tuple main() appends to all_rules for an accepted line of a source
Collected(line, name) ==
    LET r == ParsedLine[line]
        has_no_resolve == HasNoResolve(line, r.rtype)
    IN  [norm |-> normalize(r.rtype, r.rval, has_no_resolve), rtype |-> r.rtype,
         rval |-> r.rval, source |-> name, orig |-> Strip(line),
         has_no_resolve |-> has_no_resolve]

\* Collected for every line of the input universe and every source
\* (tabulated once)
CollectedLine ==
    [l \in { x \in ParserLines : ParsedLine[x].ok }, n \in Range(RULE_SOURCES) |->
       Collected(l, n)]

\* the body of `for line in lines` over the rest of the lines of a source;
\* acc = [rules, valid, leading_dot]
RECURSIVE ParseLines(_, _, _)
ParseLines(lines, name, acc) ==
    IF lines = <<>> THEN acc
    ELSE
      LET line == Head(lines)
          r == ParsedLine[line]
          is_leading_dot == r.flag
      IN  IF is_leading_dot
          THEN ParseLines(Tail(lines), name,
                          [acc EXCEPT !.leading_dot = @ + 1])
          ELSE IF r.ok
          THEN ParseLines(Tail(lines), name,
                   [acc EXCEPT !.rules = Append(@, CollectedLine[line, name]),
                               !.valid = @ + 1])
          ELSE ParseLines(Tail(lines), name, acc)

\* lines read by the sources fetched so far
LinesRead ==
    LET RECURSIVE Sum(_)
        Sum(st) == IF st = <<>> THEN 0 ELSE Head(st).total + Sum(Tail(st))
    IN  Sum(source_stats)

\* one iteration of `for src in RULE_SOURCES` whose request succeeds
LoonFetchOk ==
    /\ script = "loon" /\ pc = "COLLECTING" /\ srcIdx <= Len(RULE_SOURCES)
    /\ \E lines \in SeqsUpTo(LoonLines, MaxLines - LinesRead) :
         LET name == RULE_SOURCES[srcIdx]
             got == ParseLines(lines, name,
                               [rules |-> <<>>, valid |-> 0, leading_dot |-> 0])
         IN  /\ all_rules' = all_rules \o got.rules
             /\ source_stats' = Append(source_stats,
                    [name |-> name, total |-> Len(lines), valid |-> got.valid,
                     leading_dot |-> got.leading_dot, error |-> FALSE])
    /\ srcIdx' = srcIdx + 1
    /\ UNCHANGED <<soloVars, script, pc, files, final_rules, aghVars,
                   unique, seen, exact_dup, trie, ip_mgr,
                   final_domains, final_suffixes, final_ips,
                   cover_logs, domain_covered, ip_covered>>

\* one iteration of `for src in RULE_SOURCES` whose request raises
LoonFetchFail ==
    /\ script = "loon" /\ pc = "COLLECTING" /\ srcIdx <= Len(RULE_SOURCES)
    /\ source_stats' = Append(source_stats,
           [name |-> RULE_SOURCES[srcIdx], total |-> 0, valid |-> 0,
            leading_dot |-> 0, error |-> TRUE])
    /\ srcIdx' = srcIdx + 1
    /\ UNCHANGED <<soloVars, script, pc, files, final_rules, loonVars, aghVars>>

\* `if not all_rules: return`
LoonNoRules ==
    /\ script = "loon" /\ pc = "COLLECTING" /\ srcIdx > Len(RULE_SOURCES)
    /\ all_rules = <<>>
    /\ pc' = "FAILED"
    /\ UNCHANGED <<soloVars, script, srcIdx, source_stats, files, final_rules,
                   loonVars, aghVars>>

(***************************************************************************)
(* loon.py main(): exact dedup (EXACT_DEDUP)                               *)
(***************************************************************************)
\* the exact-dedup loop as it would be if it compared the rules' source text
\* instead of their normalized form
RECURSIVE ExactDedupLoopRaw(_, _)
ExactDedupLoopRaw(rules, acc) ==
    IF rules = <<>> THEN acc
    ELSE
      LET r == Head(rules)
      IN  IF \E u \in Range(acc.unique) : u.orig = r.orig
          THEN ExactDedupLoopRaw(Tail(rules), [acc EXCEPT !.exact_dup = @ + 1])
          ELSE ExactDedupLoopRaw(Tail(rules),
                   [acc EXCEPT
                      !.seen = @ \cup {[norm |-> r.norm, source |-> r.source]},
                      !.unique = Append(@, [norm |-> r.norm, rtype |-> r.rtype,
                                            rval |-> r.rval, source |-> r.source,
                                            orig |-> r.orig])])

\* the exact-dedup loop as it would be if a duplicate, once dropped, made the
\* loop forget that it had seen the rule
RECURSIVE ExactDedupLoopForgetful(_, _)
ExactDedupLoopForgetful(rules, acc) ==
    IF rules = <<>> THEN acc
    ELSE
      LET r == Head(rules)
      IN  IF \E e \in acc.seen : e.norm = r.norm
          THEN ExactDedupLoopForgetful(Tail(rules),
                   [acc EXCEPT !.exact_dup = @ + 1,
                               !.seen = { e \in @ : e.norm # r.norm }])
          ELSE ExactDedupLoopForgetful(Tail(rules),
                   [acc EXCEPT
                      !.seen = @ \cup {[norm |-> r.norm, source |-> r.source]},
                      !.unique = Append(@, [norm |-> r.norm, rtype |-> r.rtype,
                                            rval |-> r.rval, source |-> r.source,
                                            orig |-> r.orig])])

\* the loop over all_rules; acc = [seen, unique, exact_dup]; seen is the
\* dict norm -> source, as a set of [norm, source] items
RECURSIVE ExactDedupLoop(_, _)
ExactDedupLoop(rules, acc) ==
    IF rules = <<>> THEN acc
    ELSE
      LET r == Head(rules)
      IN  IF \E e \in acc.seen : e.norm = r.norm
          THEN ExactDedupLoop(Tail(rules), [acc EXCEPT !.exact_dup = @ + 1])
          ELSE ExactDedupLoop(Tail(rules),
                   [acc EXCEPT
                      !.seen = @ \cup {[norm |-> r.norm, source |-> r.source]},
                      !.unique = Append(@, [norm |-> r.norm, rtype |-> r.rtype,
                                            rval |-> r.rval, source |-> r.source,
                                            orig |-> r.orig])])

LoonExactDedup ==
    /\ script = "loon" /\ pc = "COLLECTING" /\ srcIdx > Len(RULE_SOURCES)
    /\ all_rules # <<>>
    /\ LET res == ExactDedupLoop(all_rules,
                      [seen |-> {}, unique |-> <<>>, exact_dup |-> 0])
       IN  /\ seen' = res.seen
           /\ unique' = res.unique
           /\ exact_dup' = res.exact_dup
    /\ pc' = "SUFFIX_PASS"
    /\ UNCHANGED <<soloVars, script, srcIdx, source_stats, files, final_rules, aghVars,
                   all_rules, trie, ip_mgr,
                   final_domains, final_suffixes, final_ips,
                   cover_logs, domain_covered, ip_covered>>

(***************************************************************************)
(* loon.py main(): containment dedup                                       *)
(***************************************************************************)
\* [(n, r, v, s, o) for ... in unique if r == rtype]
OfType(rules, rtype) == SelectSeq(rules, LAMBDA u : u.rtype = rtype)

\* one cover_logs line: the removed rule's text and the rule it cites
CoverLog(orig, kind, by) == [orig |-> orig, cites |-> kind \o <<",">> \o by]

\* the loop over the sorted suffixes;
\* acc = [trie, final_suffixes, cover_logs, domain_covered]
RECURSIVE SuffixLoop(_, _)
SuffixLoop(suffixes, acc) ==
    IF suffixes = <<>> THEN acc
    ELSE
      LET u == Head(suffixes)
          c == is_covered(acc.trie, u.rval)
      IN  IF c.covered
          THEN SuffixLoop(Tail(suffixes),
                   [acc EXCEPT
                      !.domain_covered = @ + 1,
                      !.cover_logs = Append(@, CoverLog(u.orig, T_DOMAIN_SUFFIX, c.by))])
          ELSE SuffixLoop(Tail(suffixes),
                   [acc EXCEPT
                      !.trie = TrieAdd(@, u.rval),
                      !.final_suffixes = Append(@, u.norm)])

\* the sort of the suffixes as it would be with the longest value first
SortedSuffixesLongestFirst(rules) ==
    LET suffixes == OfType(rules, T_DOMAIN_SUFFIX)
    IN  Items(SortDescFrom([i \in DOMAIN suffixes |->
                              [key |-> Len(suffixes[i].rval), item |-> suffixes[i]]],
                           <<>>))

\* suffixes.sort(key=lambda x: len(x[2]))
SortedSuffixes(rules) ==
    LET suffixes == OfType(rules, T_DOMAIN_SUFFIX)
    IN  Items(SortAscFrom([i \in DOMAIN suffixes |->
                             [key |-> Len(suffixes[i].rval), item |-> suffixes[i]]],
                          <<>>))

\* SUFFIX_PASS
LoonSuffixPass ==
    /\ script = "loon" /\ pc = "SUFFIX_PASS"
    /\ LET res == SuffixLoop(SortedSuffixes(unique),
                      [trie |-> EmptyTrie, final_suffixes |-> <<>>,
                       cover_logs |-> <<>>, domain_covered |-> 0])
       IN  /\ trie' = res.trie
           /\ final_suffixes' = res.final_suffixes
           /\ cover_logs' = res.cover_logs
           /\ domain_covered' = res.domain_covered
    /\ pc' = "DOMAIN_PASS"
    /\ UNCHANGED <<soloVars, script, srcIdx, source_stats, files, final_rules, aghVars,
                   all_rules, unique, seen, exact_dup, ip_mgr,
                   final_domains, final_ips, ip_covered>>

\* the loop over the DOMAIN rules; acc = [final_domains, cover_logs, domain_covered]
RECURSIVE DomainLoop(_, _, _)
DomainLoop(domains, t, acc) ==
    IF domains = <<>> THEN acc
    ELSE
      LET u == Head(domains)
          c == is_covered(t, u.rval)
      IN  IF c.covered
          THEN DomainLoop(Tail(domains), t,
                   [acc EXCEPT
                      !.domain_covered = @ + 1,
                      !.cover_logs = Append(@, CoverLog(u.orig, T_DOMAIN_SUFFIX, c.by))])
          ELSE DomainLoop(Tail(domains), t,
                   [acc EXCEPT !.final_domains = Append(@, u.norm)])

\* DOMAIN_PASS as it would be if every DOMAIN rule kept were also inserted
\* into the trie
LoonDomainPassInserting ==
    /\ script = "loon" /\ pc = "DOMAIN_PASS"
    /\ LET res == DomainLoop(OfType(unique, T_DOMAIN), trie,
                      [final_domains |-> <<>>, cover_logs |-> cover_logs,
                       domain_covered |-> domain_covered])
           RECURSIVE AddAll(_, _)
           AddAll(t, norms) ==
               IF norms = <<>> THEN t
               ELSE AddAll(TrieAdd(t, Split(Head(norms), ",")[2]), Tail(norms))
       IN  /\ final_domains' = res.final_domains
           /\ cover_logs' = res.cover_logs
           /\ domain_covered' = res.domain_covered
           /\ trie' = AddAll(trie, res.final_domains)
    /\ pc' = "CIDR_PASS"
    /\ UNCHANGED <<soloVars, script, srcIdx, source_stats, files, final_rules, aghVars,
                   all_rules, unique, seen, exact_dup, ip_mgr,
                   final_suffixes, final_ips, ip_covered>>

\* DOMAIN_PASS
LoonDomainPass ==
    /\ script = "loon" /\ pc = "DOMAIN_PASS"
    /\ LET res == DomainLoop(OfType(unique, T_DOMAIN), trie,
                      [final_domains |-> <<>>, cover_logs |-> cover_logs,
                       domain_covered |-> domain_covered])
       IN  /\ final_domains' = res.final_domains
           /\ cover_logs' = res.cover_logs
           /\ domain_covered' = res.domain_covered
    /\ pc' = "CIDR_PASS"
    /\ UNCHANGED <<soloVars, script, srcIdx, source_stats, files, final_rules, aghVars,
                   all_rules, unique, seen, exact_dup, trie, ip_mgr,
                   final_suffixes, final_ips, ip_covered>>

\* the sort key int(x[2].split('/')[1]) can be computed: the value has a
\* second '/'-part (else IndexError) and it is a decimal (else ValueError)
SortKeyDefined(rval) ==
    LET sp == Split(rval, "/")
    IN  Len(sp) >= 2 /\ IsDecimal(sp[2])

SortKey(rval) == DecimalVal(Split(rval, "/")[2])

\* ips.sort(key=lambda x: int(x[2].split('/')[1]), reverse=True)
SortedIps(rules) ==
    LET ips == OfType(rules, T_IP_CIDR)
    IN  Items(SortDescFrom([i \in DOMAIN ips |->
                              [key |-> SortKey(ips[i].rval), item |-> ips[i]]],
                           <<>>))

\* the loop over the sorted ips as it would be if a covered rule were logged
\* and kept as well
RECURSIVE CidrLoopKeepsCovered(_, _)
CidrLoopKeepsCovered(ips, acc) ==
    IF ips = <<>> THEN acc
    ELSE
      LET u == Head(ips)
          a == IPCidrManager_add(acc.nets, u.rval)
      IN  IF a.covered
          THEN CidrLoopKeepsCovered(Tail(ips),
                   [acc EXCEPT
                      !.nets = a.nets,
                      !.ip_covered = @ + 1,
                      !.final_ips = Append(@, u.norm),
                      !.cover_logs = Append(@, CoverLog(u.orig, T_IP_CIDR, a.by))])
          ELSE CidrLoopKeepsCovered(Tail(ips),
                   [acc EXCEPT
                      !.nets = a.nets,
                      !.final_ips = Append(@, u.norm)])

\* the loop over the sorted ips; acc = [nets, final_ips, cover_logs, ip_covered]
RECURSIVE CidrLoop(_, _)
CidrLoop(ips, acc) ==
    IF ips = <<>> THEN acc
    ELSE
      LET u == Head(ips)
          a == IPCidrManager_add(acc.nets, u.rval)
      IN  IF a.covered
          THEN CidrLoop(Tail(ips),
                   [acc EXCEPT
                      !.nets = a.nets,
                      !.ip_covered = @ + 1,
                      !.cover_logs = Append(@, CoverLog(u.orig, T_IP_CIDR, a.by))])
          ELSE CidrLoop(Tail(ips),
                   [acc EXCEPT
                      !.nets = a.nets,
                      !.final_ips = Append(@, u.norm)])

\* CIDR_PASS
LoonCidrPass ==
    /\ script = "loon" /\ pc = "CIDR_PASS"
    /\ \A i \in DOMAIN unique :
         unique[i].rtype = T_IP_CIDR => SortKeyDefined(unique[i].rval)
    /\ LET res == CidrLoop(SortedIps(unique),
                      [nets |-> <<>>, final_ips |-> <<>>,
                       cover_logs |-> cover_logs, ip_covered |-> 0])
       IN  /\ ip_mgr' = res.nets
           /\ final_ips' = res.final_ips
           /\ cover_logs' = res.cover_logs
           /\ ip_covered' = res.ip_covered
    /\ pc' = "WRITE"
    /\ UNCHANGED <<soloVars, script, srcIdx, source_stats, files, final_rules, aghVars,
                   all_rules, unique, seen, exact_dup, trie,
                   final_domains, final_suffixes, domain_covered>>

\* CIDR_PASS when the sort key raises (IndexError / ValueError): main() is
\* left by the uncaught exception
LoonCidrSortRaises ==
    /\ script = "loon" /\ pc = "CIDR_PASS"
    /\ \E i \in DOMAIN unique :
         unique[i].rtype = T_IP_CIDR /\ ~SortKeyDefined(unique[i].rval)
    /\ pc' = "ABORTED"
    /\ UNCHANGED <<soloVars, script, srcIdx, source_stats, files, final_rules,
                   loonVars, aghVars>>

\* merge, sort and write the rule file and the audit log
LoonWrite ==
    /\ script = "loon" /\ pc = "WRITE"
    /\ final_rules' = Sorted(final_domains) \o Sorted(final_suffixes)
                        \o Sorted(final_ips)
    /\ files' = files \cup {OUTPUT_FILE, AUDIT_LOG_FILE}
    /\ pc' = "DONE"
    /\ UNCHANGED <<soloVars, script, srcIdx, source_stats, loonVars, aghVars>>

(***************************************************************************)
(* adguard.py                                                              *)
(***************************************************************************)
\* r.split('$')[0].replace('||', '').replace('@@', '').replace('^', '').lower()
RuleDomain(r) ==
    Lower(Remove(Remove(Remove(Split(r, "$")[1], <<"|", "|">>), <<"@", "@">>), <<"^">>))

\* the `for i in range(len(parts) - 1, 0, -1)` loop of apply_containment_dedup:
\* the first parent found in seen_domains, shortest parent first; the domain
\* itself (i = 0) is not tried
ParentCovered(seen_doms, dom) ==
    LET parts == Split(dom, ".")
        hits == { i \in 2..Len(parts) :
                    Join(SubSeq(parts, i, Len(parts)), <<".">>) \in seen_doms }
    IN  IF hits = {}
        THEN [covered |-> FALSE, by |-> None]
        ELSE LET i == CHOOSE h \in hits : \A g \in hits : g <= h
             IN  [covered |-> TRUE,
                  by |-> Join(SubSeq(parts, i, Len(parts)), <<".">>)]

\* the `for dom, original in processed` loop;
\* acc = [final_rules, seen_domains, removed_details]
RECURSIVE ContainmentLoop(_, _, _)
ContainmentLoop(processed, rule_type, acc) ==
    IF processed = <<>> THEN acc
    ELSE
      LET dom == Head(processed).dom
          original == Head(processed).original
          c == ParentCovered(acc.seen_domains, dom)
      IN  IF c.covered
          THEN ContainmentLoop(Tail(processed), rule_type,
                   [acc EXCEPT !.removed_details =
                       Append(@, [rule_type |-> rule_type, orig |-> original,
                                  cites |-> c.by])])
          ELSE ContainmentLoop(Tail(processed), rule_type,
                   [acc EXCEPT !.final_rules = Append(@, original),
                               !.seen_domains = @ \cup {dom}])

\* processed: the (domain, rule) pairs with a non-empty domain, sorted by the
\* number of dots of the domain
Processed(rules) ==
    LET withDom == SelectSeq([i \in DOMAIN rules |->
                                [dom |-> RuleDomain(rules[i]), original |-> rules[i]]],
                             LAMBDA e : e.dom # <<>>)
    IN  Items(SortAscFrom([i \in DOMAIN withDom |->
                             [key |-> Count(withDom[i].dom, "."), item |-> withDom[i]]],
                          <<>>))

\* apply_containment_dedup(rules, rule_type) -> (final_rules, removed_details)
apply_containment_dedup(rules, rule_type) ==
    IF rules = <<>>
    THEN [final_rules |-> <<>>, removed_details |-> <<>>]
    ELSE LET res == ContainmentLoop(Processed(rules), rule_type,
                        [final_rules |-> <<>>, seen_domains |-> {},
                         removed_details |-> <<>>])
         IN  [final_rules |-> res.final_rules,
              removed_details |-> res.removed_details]

\* the lines of a source kept by the fetch loop of main(): stripped, not
\* empty, not starting with '!' or '#'
ValidLines(lines) ==
    SelectSeq([i \in DOMAIN lines |-> Strip(lines[i])],
              LAMBDA l : ~(l = <<>> \/ StartsWith(l, <<"!">>) \/ StartsWith(l, <<"#">>)))

AghLinesRead ==
    LET RECURSIVE Sum(_)
        Sum(st) == IF st = <<>> THEN 0 ELSE Head(st).raw_line + Sum(Tail(st))
    IN  Sum(source_stats)

AghStats(name, lines) ==
    LET valid == ValidLines(lines)
        black == Len(SelectSeq(valid, LAMBDA r : StartsWith(r, <<"|", "|">>)))
        white == Len(SelectSeq(valid, LAMBDA r : StartsWith(r, <<"@", "@">>)))
    IN  [name |-> name, raw_line |-> Len(lines),
         skip |-> Len(lines) - Len(valid), total_rule |-> Len(valid),
         black |-> black, white |-> white, other |-> Len(valid) - black - white]

\* one iteration of the fetch loop whose fetch_remote_content succeeds
AghFetchOk ==
    /\ script = "adguard" /\ pc = "COLLECTING" /\ srcIdx <= Len(AGH_RULE_NAMES)
    /\ \E lines \in SeqsUpTo(AghLines, MaxLines - AghLinesRead) :
         /\ all_raw_rules' = all_raw_rules \o ValidLines(lines)
         /\ source_stats' = Append(source_stats,
                                   AghStats(AGH_RULE_NAMES[srcIdx], lines))
    /\ srcIdx' = srcIdx + 1
    /\ UNCHANGED <<soloVars, script, pc, files, final_rules, loonVars,
                   unique_rules, cross_dedup, white_final, white_removed,
                   black_final, black_removed, other_list>>

\* one iteration of the fetch loop whose fetch_remote_content catches an
\* exception and returns ("", 0)
AghFetchFail ==
    /\ script = "adguard" /\ pc = "COLLECTING" /\ srcIdx <= Len(AGH_RULE_NAMES)
    /\ source_stats' = Append(source_stats, AghStats(AGH_RULE_NAMES[srcIdx], <<>>))
    /\ srcIdx' = srcIdx + 1
    /\ UNCHANGED <<soloVars, script, pc, files, final_rules, loonVars, aghVars>>

\* list(dict.fromkeys(rules)): first occurrences, in order
RECURSIVE FromKeys(_, _)
FromKeys(rules, acc) ==
    IF rules = <<>> THEN acc
    ELSE IF \E i \in DOMAIN acc : acc[i] = Head(rules)
    THEN FromKeys(Tail(rules), acc)
    ELSE FromKeys(Tail(rules), Append(acc, Head(rules)))

\* step 2: global exact dedup
AghExactDedup ==
    /\ script = "adguard" /\ pc = "COLLECTING" /\ srcIdx > Len(AGH_RULE_NAMES)
    /\ unique_rules' = FromKeys(all_raw_rules, <<>>)
    /\ cross_dedup' = Len(all_raw_rules) - Len(unique_rules')
    /\ pc' = "CONTAINMENT"
    /\ UNCHANGED <<soloVars, script, srcIdx, source_stats, files, final_rules, loonVars,
                   all_raw_rules, white_final, white_removed,
                   black_final, black_removed, other_list>>

\* steps 3 and 4 as they would be if the allow and the block rules went
\* through one containment dedup together
AghContainmentTogether ==
    /\ script = "adguard" /\ pc = "CONTAINMENT"
    /\ LET listed == SelectSeq(unique_rules,
                         LAMBDA r : StartsWith(r, <<"@", "@">>)
                                    \/ StartsWith(r, <<"|", "|">>))
           both == apply_containment_dedup(listed, "both")
           IsWhite(r) == StartsWith(r, <<"@", "@">>)
       IN  /\ other_list' = SelectSeq(unique_rules,
                                LAMBDA r : ~(StartsWith(r, <<"@", "@">>)
                                             \/ StartsWith(r, <<"|", "|">>)))
           /\ white_final' = SelectSeq(both.final_rules, IsWhite)
           /\ white_removed' = SelectSeq(both.removed_details,
                                         LAMBDA l : IsWhite(l.orig))
           /\ black_final' = SelectSeq(both.final_rules, LAMBDA r : ~IsWhite(r))
           /\ black_removed' = SelectSeq(both.removed_details,
                                         LAMBDA l : ~IsWhite(l.orig))
    /\ pc' = "WRITE"
    /\ UNCHANGED <<soloVars, script, srcIdx, source_stats, files, final_rules, loonVars,
                   all_raw_rules, unique_rules, cross_dedup>>

\* steps 3 and 4: classification and containment dedup of both lists
AghContainment ==
    /\ script = "adguard" /\ pc = "CONTAINMENT"
    /\ LET white_list == SelectSeq(unique_rules, LAMBDA r : StartsWith(r, <<"@", "@">>))
           black_list == SelectSeq(unique_rules, LAMBDA r : StartsWith(r, <<"|", "|">>))
           w == apply_containment_dedup(white_list, "white")
           b == apply_containment_dedup(black_list, "black")
       IN  /\ other_list' = SelectSeq(unique_rules,
                                LAMBDA r : ~(StartsWith(r, <<"@", "@">>)
                                             \/ StartsWith(r, <<"|", "|">>)))
           /\ white_final' = w.final_rules
           /\ white_removed' = w.removed_details
           /\ black_final' = b.final_rules
           /\ black_removed' = b.removed_details
    /\ pc' = "WRITE"
    /\ UNCHANGED <<soloVars, script, srcIdx, source_stats, files, final_rules, loonVars,
                   all_raw_rules, unique_rules, cross_dedup>>

\* steps 5 and 6: build the rule list and write both files
AghWrite ==
    /\ script = "adguard" /\ pc = "WRITE"
    /\ final_rules' = white_final \o black_final \o other_list
    /\ files' = files \cup {AGH_OUTPUT_FILE, REMOVED_LOG_FILE}
    /\ pc' = "DONE"
    /\ UNCHANGED <<soloVars, script, srcIdx, source_stats, loonVars, aghVars>>

(***************************************************************************)
(* A run of either script                                                  *)
(***************************************************************************)
\* no query made yet
NoDecision == [op |-> "none"]

\* the state before main() has done anything
Blank ==
    /\ pc = "COLLECTING"
    /\ srcIdx = 1
    /\ source_stats = <<>>
    /\ files = {}
    /\ final_rules = <<>>
    /\ all_rules = <<>> /\ unique = <<>> /\ seen = {} /\ exact_dup = 0
    /\ trie = EmptyTrie /\ ip_mgr = <<>>
    /\ final_domains = <<>> /\ final_suffixes = <<>> /\ final_ips = <<>>
    /\ cover_logs = <<>> /\ domain_covered = 0 /\ ip_covered = 0
    /\ all_raw_rules = <<>> /\ unique_rules = <<>> /\ cross_dedup = 0
    /\ white_final = <<>> /\ white_removed = <<>>
    /\ black_final = <<>> /\ black_removed = <<>> /\ other_list = <<>>
    /\ seen_domains = {} /\ decision = NoDecision

Init == script \in {"loon", "adguard"} /\ Blank

Next ==
    \/ LoonFetchOk
    \/ LoonFetchFail
    \/ LoonNoRules
    \/ LoonExactDedup
    \/ LoonSuffixPass
    \/ LoonDomainPass
    \/ LoonCidrPass
    \/ LoonCidrSortRaises
    \/ LoonWrite
    \/ AghFetchOk
    \/ AghFetchFail
    \/ AghExactDedup
    \/ AghContainment
    \/ AghWrite

Spec == Init /\ [][Next]_vars

(***************************************************************************)
(* IPCidrManager on its own: add() called with any networks in any order   *)
(***************************************************************************)
\* 10.1.2.0/24
V_10_1_2_24 == <<"1","0",".","1",".","2",".","0","/","2","4">>

\* 10.2.0.0/16
V_10_2_16 == <<"1","0",".","2",".","0",".","0","/","1","6">>

CidrPool ==
    { ParsedLine[l].rval : l \in { x \in LoonLines : ParsedLine[x].rtype = T_IP_CIDR } }
      \cup {V_10_1_2_24, V_10_2_16}

InitIndex == script = "index" /\ Blank

\* ip_mgr.add(cidr) for any cidr; decision records the call, what it
\* returned and how many retained networks it removed
IndexAdd ==
    /\ script = "index"
    /\ \E cidr \in CidrPool :
         LET a == IPCidrManager_add(ip_mgr, cidr)
         IN  /\ ip_mgr' = a.nets
             /\ decision' = [op |-> "add", arg |-> cidr,
                             covered |-> a.covered, by |-> a.by,
                             evicted |-> IF a.covered THEN 0
                                         ELSE Len(ip_mgr) + 1 - Len(a.nets)]
    /\ UNCHANGED <<script, pc, srcIdx, source_stats, files, final_rules, aghVars,
                   all_rules, unique, seen, exact_dup, trie,
                   final_domains, final_suffixes, final_ips,
                   cover_logs, domain_covered, ip_covered, seen_domains>>

NextIndex == IndexAdd

SpecIndex == InitIndex /\ [][NextIndex]_vars

(***************************************************************************)
(* The two coverage checks side by side: DomainTrie (loon.py) and the      *)
(* parent loop over seen_domains (adguard.py), fed the same suffixes       *)
(***************************************************************************)
\* c
V_c == <<"c">>

\* a.c
V_ac == <<"a",".","c">>

DomainPool ==
    { ParsedLine[l].rval :
        l \in { x \in LoonLines : ParsedLine[x].rtype \in {T_DOMAIN, T_DOMAIN_SUFFIX} } }
      \cup {V_c, V_ac}

InitCover == script = "cover" /\ Blank

\* trie.add(d) and seen_domains.add(d) for any d
CoverInsert ==
    /\ script = "cover"
    /\ \E d \in DomainPool :
         /\ trie' = TrieAdd(trie, d)
         /\ seen_domains' = seen_domains \cup {d}
         /\ decision' = [op |-> "insert", arg |-> d]
    /\ UNCHANGED <<script, pc, srcIdx, source_stats, files, final_rules, aghVars,
                   all_rules, unique, seen, exact_dup, ip_mgr,
                   final_domains, final_suffixes, final_ips,
                   cover_logs, domain_covered, ip_covered>>

\* both checks asked about any d
CoverQuery ==
    /\ script = "cover"
    /\ \E d \in DomainPool :
         decision' = [op |-> "query", arg |-> d,
                      trie |-> is_covered(trie, d),
                      set |-> ParentCovered(seen_domains, d)]
    /\ UNCHANGED <<script, pc, srcIdx, source_stats, files, final_rules, aghVars,
                   loonVars, seen_domains>>

NextCover == CoverInsert \/ CoverQuery

SpecCover == InitCover /\ [][NextCover]_vars

(***************************************************************************)
(* Vocabulary of the properties                                            *)
(***************************************************************************)
\* the value field of a normalized rule "TYPE,value[,no-resolve]"
NormValue(norm) == Split(norm, ",")[2]

\* the type field of a normalized rule
NormType(norm) == Split(norm, ",")[1]

\* the network of a normalized IP-CIDR rule
NormNetwork(norm) == IPv4Network(NormValue(norm))

\* s is a literal dot-suffix of d: d is s, or d ends with "." followed by s
DotSuffix(s, d) == s = d \/ EndsWith(d, <<".">> \o s)

\* network n lies inside network w and is not w
StrictSubnet(n, w) == supernet_of(w, n) /\ n # w

LoonRan(places) == script = "loon" /\ pc \in places

AfterExactDedup ==
    LoonRan({"SUFFIX_PASS", "DOMAIN_PASS", "CIDR_PASS", "WRITE", "DONE", "ABORTED"})

AfterSuffixPass == LoonRan({"DOMAIN_PASS", "CIDR_PASS", "WRITE", "DONE", "ABORTED"})

AfterDomainPass == LoonRan({"CIDR_PASS", "WRITE", "DONE", "ABORTED"})

AfterCidrPass == LoonRan({"WRITE", "DONE"})

\* main() has returned or was left by an exception
Ended == pc \in {"DONE", "FAILED", "ABORTED"}

\* parse_rule of the rule text a removal record was written for (orig is
\* the stripped line), tabulated once
ParsedOrig == [o \in { Strip(l) : l \in LoonLines } |-> parse_rule(o)]

\* the rules of one type among the unique rules
UniqueOf(rtype) == { u \in Range(unique) : u.rtype = rtype }

(***************************************************************************)
(* C1  After CIDR_PASS the IP-CIDR rules kept as final survivors           *)
(* (final_ips) form an antichain: of two distinct survivors, neither       *)
(* network is a supernet of the other.                                     *)
(***************************************************************************)
C1_FinalIpsAntichain ==
    AfterCidrPass =>
      \A i, j \in DOMAIN final_ips :
        i # j => ~supernet_of(NormNetwork(final_ips[i]), NormNetwork(final_ips[j]))

(***************************************************************************)
(* C2  Whenever the input holds an IP-CIDR rule N that is a strict         *)
(* sub-network of another IP-CIDR rule W, in either arrival order, then    *)
(* after CIDR_PASS N is not a survivor, W or a supernet of W is, and the   *)
(* audit trail holds a removal record for N citing a surviving supernet    *)
(* of N.                                                                   *)
(***************************************************************************)
C2_SubnetAbsorbed ==
    AfterCidrPass =>
      \A n, w \in UniqueOf(T_IP_CIDR) :
        StrictSubnet(IPv4Network(n.rval), IPv4Network(w.rval)) =>
          /\ n.norm \notin Range(final_ips)
          /\ \E k \in Range(final_ips) :
               supernet_of(NormNetwork(k), IPv4Network(w.rval))
          /\ \E l \in Range(cover_logs) :
               /\ l.orig = n.orig
               /\ \E k \in Range(final_ips) :
                    /\ l.cites = NormType(k) \o <<",">> \o NormValue(k)
                    /\ supernet_of(NormNetwork(k), IPv4Network(n.rval))

(***************************************************************************)
(* C3  Suffix coverage soundness: every DOMAIN or DOMAIN-SUFFIX rule       *)
(* removed by SUFFIX_PASS / DOMAIN_PASS has a surviving DOMAIN-SUFFIX rule *)
(* whose value is a literal dot-suffix of the removed value, and its       *)
(* removal record cites such a survivor; a partial-label match never       *)
(* removes a rule.                                                         *)
(***************************************************************************)
C3_SuffixCoverageSound ==
    AfterDomainPass =>
      /\ \A i \in DOMAIN unique :
           (/\ unique[i].rtype \in {T_DOMAIN, T_DOMAIN_SUFFIX}
            /\ \A j \in DOMAIN final_domains : final_domains[j] # unique[i].norm
            /\ \A j \in DOMAIN final_suffixes : final_suffixes[j] # unique[i].norm) =>
             \E j \in DOMAIN final_suffixes :
               DotSuffix(NormValue(final_suffixes[j]), unique[i].rval)
      /\ \A n \in DOMAIN cover_logs :
           ParsedOrig[cover_logs[n].orig].rtype \in {T_DOMAIN, T_DOMAIN_SUFFIX} =>
             \E j \in DOMAIN final_suffixes :
               /\ cover_logs[n].cites = final_suffixes[j]
               /\ DotSuffix(NormValue(final_suffixes[j]),
                            ParsedOrig[cover_logs[n].orig].rval)

\* a rule was removed as covered by a suffix, while a DOMAIN rule that only
\* shares the tail of a label with that suffix is kept
C3_Witness ==
    /\ AfterDomainPass
    /\ \E l \in Range(cover_logs) :
         ParsedOrig[l.orig].rtype \in {T_DOMAIN, T_DOMAIN_SUFFIX}
    /\ \E d \in Range(final_domains), k \in Range(final_suffixes) :
         /\ EndsWith(NormValue(d), NormValue(k))
         /\ ~DotSuffix(NormValue(k), NormValue(d))

(***************************************************************************)
(* C4  A DOMAIN rule whose value equals, or is a subdomain of, the value   *)
(* of a DOMAIN-SUFFIX rule of the input is removed in DOMAIN_PASS (it has  *)
(* a removal record) and is not a final survivor; the DOMAIN value being   *)
(* identical to the suffix value counts as covered.                        *)
(***************************************************************************)
C4_CoveredDomainRemoved ==
    AfterDomainPass =>
      \A d, k \in Range(all_rules) :
        (d.rtype = T_DOMAIN /\ k.rtype = T_DOMAIN_SUFFIX /\ DotSuffix(k.rval, d.rval)) =>
          /\ d.norm \notin Range(final_domains)
          /\ \E l \in Range(cover_logs) : ParsedOrig[l.orig].rval = d.rval
                                          /\ ParsedOrig[l.orig].rtype = T_DOMAIN
          /\ pc = "DONE" => d.norm \notin Range(final_rules)

\* the run is done, a DOMAIN rule identical in value to a DOMAIN-SUFFIX rule
\* was removed, and so was a DOMAIN rule strictly below a suffix
C4_Witness ==
    /\ script = "loon" /\ pc = "DONE"
    /\ \E d, k \in Range(all_rules) :
         d.rtype = T_DOMAIN /\ k.rtype = T_DOMAIN_SUFFIX /\ d.rval = k.rval
    /\ \E d, k \in Range(all_rules) :
         /\ d.rtype = T_DOMAIN /\ k.rtype = T_DOMAIN_SUFFIX
         /\ d.rval # k.rval /\ DotSuffix(k.rval, d.rval)

(***************************************************************************)
(* C5  EXACT_DEDUP keeps exactly the first occurrence of each distinct     *)
(* normalized rule, in first-occurrence order, attributed to the source    *)
(* declared first among those providing it, and the exact-duplicate        *)
(* counter is the number of later occurrences (collected rules minus       *)
(* distinct normalized rules).  Both scripts.                              *)
(***************************************************************************)
\* the positions of a list of texts that hold a first occurrence
FirstOccurrences(texts) ==
    { i \in DOMAIN texts : \A j \in 1..(i - 1) : texts[j] # texts[i] }

\* the k-th smallest member of a set of positions
KthOf(P, k) == CHOOSE i \in P : Cardinality({ j \in P : j <= i }) = k

SourceIndex(name) == CHOOSE i \in DOMAIN RULE_SOURCES : RULE_SOURCES[i] = name

C5_ExactDedupKeepsFirst ==
    /\ AfterExactDedup =>
         LET norms == [i \in DOMAIN all_rules |-> all_rules[i].norm]
             first == FirstOccurrences(norms)
         IN  /\ Len(unique) = Cardinality(first)
             /\ \A k \in DOMAIN unique :
                  LET r == all_rules[KthOf(first, k)]
                  IN  /\ unique[k].norm = r.norm
                      /\ unique[k].source = r.source
                      /\ unique[k].orig = r.orig
                      /\ [norm |-> r.norm, source |-> r.source] \in seen
                      /\ \A o \in Range(all_rules) :
                           o.norm = r.norm =>
                             SourceIndex(unique[k].source) <= SourceIndex(o.source)
             /\ exact_dup = Len(all_rules) - Cardinality(Range(norms))
    /\ (script = "adguard" /\ pc \in {"CONTAINMENT", "WRITE", "DONE"}) =>
         LET first == FirstOccurrences(all_raw_rules)
         IN  /\ Len(unique_rules) = Cardinality(first)
             /\ \A k \in DOMAIN unique_rules :
                  unique_rules[k] = all_raw_rules[KthOf(first, k)]
             /\ cross_dedup = Len(all_raw_rules) - Cardinality(Range(all_raw_rules))

\* two sources gave the same normalized rule, written differently, and one
\* instance was kept
C5_Witness ==
    /\ AfterExactDedup
    /\ exact_dup = 1
    /\ \E i, j \in DOMAIN all_rules :
         /\ i < j
         /\ all_rules[i].norm = all_rules[j].norm
         /\ all_rules[i].orig # all_rules[j].orig
         /\ all_rules[i].source # all_rules[j].source
         /\ \E k \in DOMAIN unique : unique[k].norm = all_rules[i].norm

(***************************************************************************)
(* C6  When every source fails to fetch, or no usable rule exists after    *)
(* COLLECTING, the run writes neither the merged rule file nor the audit   *)
(* log.  Both scripts.                                                     *)
(***************************************************************************)
NoUsableRule ==
    /\ pc # "COLLECTING" \/ srcIdx > Len(RULE_SOURCES)
    /\ \/ script = "loon" /\ all_rules = <<>>
       \/ script = "adguard" /\ all_raw_rules = <<>>

C6_FailedRunWritesNothing == NoUsableRule => files = {}

(***************************************************************************)
(* C7  Whenever at least one line was accepted, the run goes through every *)
(* pass and ends in DONE with both files written; no accepted rule makes a *)
(* later pass abort.                                                       *)
(***************************************************************************)
C7_AcceptedRunCompletes ==
    (script = "loon" /\ all_rules # <<>>) =>
      /\ pc \notin {"ABORTED", "FAILED"}
      /\ pc = "DONE" => files = {OUTPUT_FILE, AUDIT_LOG_FILE}

(***************************************************************************)
(* C8  After any sequence of IPCidrManager.add calls, in any order, the    *)
(* retained networks (self.nets) are an antichain under containment: no    *)
(* two are equal or in a supernet/subnet relationship.                     *)
(***************************************************************************)
C8_IndexAntichain ==
    \A i, j \in DOMAIN ip_mgr :
      i # j => ~supernet_of(ip_mgr[i].net, ip_mgr[j].net)

\* an add() has just evicted a retained network and others remain beside
\* the new one
C8_Witness ==
    /\ decision.op = "add"
    /\ decision.evicted >= 1
    /\ Len(ip_mgr) >= 2

(***************************************************************************)
(* C9  The trie check (DomainTrie.is_covered after inserting a set S) and  *)
(* the ancestor-set check (the parent loop over seen_domains = S) return   *)
(* the same (covered, matchedSuffix) pair for every domain and every S,    *)
(* the queried domain being in S included.                                 *)
(***************************************************************************)
C9_ChecksAgree ==
    decision.op = "query" =>
      /\ decision.trie.covered = decision.set.covered
      /\ decision.trie.covered => decision.trie.by = decision.set.by

(***************************************************************************)
(* C10  At DONE every removal record cites a rule of the final survivor    *)
(* set: a surviving DOMAIN-SUFFIX rule for a domain removal, a surviving   *)
(* IP-CIDR rule for a CIDR removal (loon.py); a kept rule of the same list *)
(* whose domain is the cited parent (adguard.py).                          *)
(***************************************************************************)
C10_RecordsCiteSurvivors ==
    /\ (script = "loon" /\ pc = "DONE") =>
         \A l \in Range(cover_logs) :
           IF ParsedOrig[l.orig].rtype = T_IP_CIDR
           THEN \E k \in Range(final_ips) :
                  /\ k = l.cites \o <<",">> \o T_NO_RESOLVE
                  /\ k \in Range(final_rules)
           ELSE \E k \in Range(final_suffixes) :
                  /\ k = l.cites
                  /\ k \in Range(final_rules)
    /\ (script = "adguard" /\ pc = "DONE") =>
         /\ \A l \in Range(white_removed) :
              \E r \in Range(white_final) :
                RuleDomain(r) = l.cites /\ r \in Range(final_rules)
         /\ \A l \in Range(black_removed) :
              \E r \in Range(black_final) :
                RuleDomain(r) = l.cites /\ r \in Range(final_rules)

\* a finished loon.py run whose audit trail holds a CIDR removal record
C10_Witness ==
    /\ script = "loon" /\ pc = "DONE"
    /\ \E l \in Range(cover_logs) : ParsedOrig[l.orig].rtype = T_IP_CIDR

(***************************************************************************)
(* C11  In the merged rule file the surviving rules are grouped by kind    *)
(* and every group is sorted lexicographically: DOMAIN, DOMAIN-SUFFIX,     *)
(* IP-CIDR for loon.py; allow, block, other for adguard.py.                *)
(***************************************************************************)
\* a list of texts is in lexicographic (code point) order
IsSorted(texts) ==
    \A i \in 1..(Len(texts) - 1) : ~StrLess(texts[i + 1], texts[i])

\* the rules of a list whose text starts with a prefix
WithPrefix(rules, p) == SelectSeq(rules, LAMBDA r : StartsWith(r, p))

C11_GroupsSorted ==
    /\ (script = "loon" /\ pc = "DONE") =>
         LET ds == WithPrefix(final_rules, T_DOMAIN \o <<",">>)
             ss == WithPrefix(final_rules, T_DOMAIN_SUFFIX \o <<",">>)
             is == WithPrefix(final_rules, T_IP_CIDR \o <<",">>)
         IN  /\ final_rules = ds \o ss \o is
             /\ IsSorted(ds) /\ IsSorted(ss) /\ IsSorted(is)
    /\ (script = "adguard" /\ pc = "DONE") =>
         LET ws == WithPrefix(final_rules, <<"@", "@">>)
             bs == WithPrefix(final_rules, <<"|", "|">>)
             os == SelectSeq(final_rules,
                             LAMBDA r : ~(StartsWith(r, <<"@", "@">>)
                                          \/ StartsWith(r, <<"|", "|">>)))
         IN  /\ final_rules = ws \o bs \o os
             /\ IsSorted(ws) /\ IsSorted(bs) /\ IsSorted(os)

(***************************************************************************)
(* The fetch loop of loon.py main() on its own, given any lines the parser *)
(* can meet; decision remembers the lines the last source answered         *)
(***************************************************************************)
InitCollect == script = "collect" /\ Blank

\* one iteration of `for src in RULE_SOURCES` whose request succeeds
CollectFetch ==
    /\ script = "collect" /\ pc = "COLLECTING" /\ srcIdx <= Len(RULE_SOURCES)
    /\ \E lines \in SeqsUpTo(ParserLines, MaxLines - LinesRead) :
         LET name == RULE_SOURCES[srcIdx]
             got == ParseLines(lines, name,
                               [rules |-> <<>>, valid |-> 0, leading_dot |-> 0])
         IN  /\ all_rules' = all_rules \o got.rules
             /\ source_stats' = Append(source_stats,
                    [name |-> name, total |-> Len(lines), valid |-> got.valid,
                     leading_dot |-> got.leading_dot, error |-> FALSE])
             /\ decision' = [op |-> "fetch", lines |-> lines]
    /\ srcIdx' = srcIdx + 1
    /\ UNCHANGED <<seen_domains, script, pc, files, final_rules, aghVars,
                   unique, seen, exact_dup, trie, ip_mgr,
                   final_domains, final_suffixes, final_ips,
                   cover_logs, domain_covered, ip_covered>>

NextCollect == CollectFetch

SpecCollect == InitCollect /\ [][NextCollect]_vars

(***************************************************************************)
(* C12  In the statistics of a source the leading-dot counter is the       *)
(* number of its lines whose stripped text starts with '.', the valid      *)
(* counter is the number of lines the parser accepted, and so the lines    *)
(* left over (total - valid - leading_dot) are exactly the lines rejected  *)
(* for another reason: no line is counted under a reason that is not its   *)
(* own.                                                                    *)
(***************************************************************************)
IsLeadingDot(line) == StartsWith(Strip(line), <<".">>)

C12_LeadingDotCountedApart ==
    decision.op = "fetch" =>
      LET st == source_stats[Len(source_stats)]
          lines == decision.lines
      IN  /\ st.leading_dot
               = Cardinality({ i \in DOMAIN lines : IsLeadingDot(lines[i]) })
          /\ st.valid
               = Cardinality({ i \in DOMAIN lines : parse_rule(lines[i]).ok })
          /\ st.total - st.valid - st.leading_dot
               = Cardinality({ i \in DOMAIN lines :
                                 /\ ~parse_rule(lines[i]).ok
                                 /\ ~IsLeadingDot(lines[i]) })

(***************************************************************************)
(* C13  EXACT_DEDUP is idempotent: run again on its own output (the state   *)
(* main() is in when the dedup has just ended) it removes nothing, counts  *)
(* zero exact duplicates and returns the same rules in the same order.     *)
(* Both scripts.                                                           *)
(***************************************************************************)
C13_ExactDedupIdempotent ==
    /\ LoonRan({"SUFFIX_PASS"}) =>
         LET again == ExactDedupLoop(unique,
                          [seen |-> {}, unique |-> <<>>, exact_dup |-> 0])
         IN  /\ again.unique = unique
             /\ again.exact_dup = 0
             /\ again.seen = seen
    /\ (script = "adguard" /\ pc = "CONTAINMENT") =>
         LET again == FromKeys(unique_rules, <<>>)
         IN  /\ again = unique_rules
             /\ Len(unique_rules) - Len(again) = 0

\* the first run removed a duplicate and left at least two rules
C13_Witness ==
    \/ /\ LoonRan({"SUFFIX_PASS"})
       /\ exact_dup >= 1
       /\ Len(unique) >= 2
    \/ /\ script = "adguard" /\ pc = "CONTAINMENT"
       /\ cross_dedup >= 1
       /\ Len(unique_rules) >= 2

(***************************************************************************)
(* C14  CIDR_PASS feeds the rules to the containment index widest network  *)
(* first: of two IP-CIDR rules, the one added earlier has a prefix length  *)
(* less than or equal to that of the one added later.                      *)
(***************************************************************************)
\* the prefix length of an IP-CIDR value
PrefixLen(rval) == IPv4Network(rval).plen

C14_WidestFirst ==
    AfterCidrPass =>
      LET fed == SortedIps(unique)
      IN  /\ \A i, j \in DOMAIN fed :
               i < j => PrefixLen(fed[i].rval) <= PrefixLen(fed[j].rval)
          \* the rules kept are in final_ips in the order they were added
          /\ \A i, j \in DOMAIN final_ips :
               i < j => NormNetwork(final_ips[i]).plen <= NormNetwork(final_ips[j]).plen

(***************************************************************************)
(* C15  At DONE the IP-CIDR survivors written to the rule file are exactly *)
(* the networks the containment index retains at the end of CIDR_PASS: a   *)
(* network that add() evicted from the index is not among the survivors.   *)
(***************************************************************************)
C15_SurvivorsAreIndex ==
    (script = "loon" /\ pc = "DONE") =>
      { NormValue(r) : r \in Range(WithPrefix(final_rules, T_IP_CIDR \o <<",">>)) }
        = { ip_mgr[i].str : i \in DOMAIN ip_mgr }

(***************************************************************************)
(* SUFFIX_PASS and what follows it, entered with any duplicate-free list   *)
(* of DOMAIN-SUFFIX rules: the state main() is in after EXACT_DEDUP when   *)
(* the first source answered those lines and the second answered none      *)
(***************************************************************************)
\* the lists without repetition over S, of length 0..n
DistinctSeqsUpTo(S, n) ==
    { q \in SeqsUpTo(S, n) : \A i, j \in DOMAIN q : i # j => q[i] # q[j] }

\* the tuple kept in `unique` for the line "DOMAIN-SUFFIX,<value>" of the
\* first source
SuffixRule(v) ==
    [norm |-> normalize(T_DOMAIN_SUFFIX, v, FALSE), rtype |-> T_DOMAIN_SUFFIX,
     rval |-> v, source |-> RULE_SOURCES[1],
     orig |-> T_DOMAIN_SUFFIX \o <<",">> \o v]

InitSuffix ==
    /\ script = "loon"
    /\ pc = "SUFFIX_PASS"
    /\ srcIdx = Len(RULE_SOURCES) + 1
    /\ \E vs \in DistinctSeqsUpTo(DomainPool, MaxLines) :
         /\ vs # <<>>
         /\ unique = [i \in DOMAIN vs |-> SuffixRule(vs[i])]
         /\ all_rules = [i \in DOMAIN vs |->
                           [norm |-> SuffixRule(vs[i]).norm,
                            rtype |-> T_DOMAIN_SUFFIX, rval |-> vs[i],
                            source |-> RULE_SOURCES[1],
                            orig |-> SuffixRule(vs[i]).orig,
                            has_no_resolve |-> FALSE]]
         /\ seen = { [norm |-> SuffixRule(vs[i]).norm, source |-> RULE_SOURCES[1]] :
                       i \in DOMAIN vs }
         /\ source_stats =
              <<[name |-> RULE_SOURCES[1], total |-> Len(vs), valid |-> Len(vs),
                 leading_dot |-> 0, error |-> FALSE],
                [name |-> RULE_SOURCES[2], total |-> 0, valid |-> 0,
                 leading_dot |-> 0, error |-> FALSE]>>
    /\ exact_dup = 0
    /\ files = {}
    /\ final_rules = <<>>
    /\ trie = EmptyTrie /\ ip_mgr = <<>>
    /\ final_domains = <<>> /\ final_suffixes = <<>> /\ final_ips = <<>>
    /\ cover_logs = <<>> /\ domain_covered = 0 /\ ip_covered = 0
    /\ all_raw_rules = <<>> /\ unique_rules = <<>> /\ cross_dedup = 0
    /\ white_final = <<>> /\ white_removed = <<>>
    /\ black_final = <<>> /\ black_removed = <<>> /\ other_list = <<>>
    /\ seen_domains = {} /\ decision = NoDecision

NextSuffix ==
    \/ LoonSuffixPass
    \/ LoonDomainPass
    \/ LoonCidrPass
    \/ LoonWrite

SpecSuffix == InitSuffix /\ [][NextSuffix]_vars

(***************************************************************************)
(* C16  After SUFFIX_PASS no surviving DOMAIN-SUFFIX rule is a proper      *)
(* subdomain of another surviving one.  Whenever the input holds a suffix  *)
(* together with one of its ancestors, the child is removed and the        *)
(* ancestor, or an ancestor of the ancestor, is kept; a suffix with no     *)
(* ancestor in the input is always kept (a child never removes its         *)
(* parent).                                                                *)
(***************************************************************************)
\* w is a proper ancestor of u: u ends with "." followed by w
ProperAncestor(w, u) == w # u /\ DotSuffix(w, u)

C16_TopSuffixKept ==
    AfterSuffixPass =>
      /\ \A i, j \in DOMAIN final_suffixes :
           i # j => ~DotSuffix(NormValue(final_suffixes[i]),
                               NormValue(final_suffixes[j]))
      /\ \A i, j \in DOMAIN unique :
           (/\ unique[i].rtype = T_DOMAIN_SUFFIX
            /\ unique[j].rtype = T_DOMAIN_SUFFIX
            /\ ProperAncestor(unique[j].rval, unique[i].rval)) =>
             /\ unique[i].norm \notin Range(final_suffixes)
             /\ \E k \in DOMAIN final_suffixes :
                  DotSuffix(NormValue(final_suffixes[k]), unique[j].rval)
      /\ \A i \in DOMAIN unique :
           (/\ unique[i].rtype = T_DOMAIN_SUFFIX
            /\ \A j \in DOMAIN unique :
                 unique[j].rtype = T_DOMAIN_SUFFIX =>
                   ~ProperAncestor(unique[j].rval, unique[i].rval)) =>
             unique[i].norm \in Range(final_suffixes)

\* the statement as first written: of a suffix and one of its ancestors, it
\* is that ancestor which is kept
C16_AncestorKept ==
    AfterSuffixPass =>
      \A i, j \in DOMAIN unique :
        (/\ unique[i].rtype = T_DOMAIN_SUFFIX
         /\ unique[j].rtype = T_DOMAIN_SUFFIX
         /\ ProperAncestor(unique[j].rval, unique[i].rval)) =>
          /\ unique[i].norm \notin Range(final_suffixes)
          /\ unique[j].norm \in Range(final_suffixes)

\* the pass is over; the input held a chain of three suffixes, given child
\* first, and only the top one is kept of it
C16_Witness ==
    /\ AfterSuffixPass
    /\ \E i, j, k \in DOMAIN unique :
         /\ i < j /\ j < k
         /\ ProperAncestor(unique[j].rval, unique[i].rval)
         /\ ProperAncestor(unique[k].rval, unique[j].rval)
         /\ unique[k].norm \in Range(final_suffixes)
         /\ unique[i].norm \notin Range(final_suffixes)
         /\ unique[j].norm \notin Range(final_suffixes)

(***************************************************************************)
(* C17  DOMAIN_PASS only queries the trie: from the end of SUFFIX_PASS on  *)
(* no step changes the trie, and a DOMAIN rule is removed only because of  *)
(* a DOMAIN-SUFFIX rule of the input, never because of another DOMAIN      *)
(* rule (a.b.c and b.c both survive as DOMAIN rules when no suffix covers  *)
(* them).                                                                  *)
(***************************************************************************)
\* every DOMAIN rule that no DOMAIN-SUFFIX rule of the input covers is kept
UncoveredDomainsKept ==
    AfterDomainPass =>
      \A i \in DOMAIN unique :
        (/\ unique[i].rtype = T_DOMAIN
         /\ \A j \in DOMAIN unique :
              unique[j].rtype = T_DOMAIN_SUFFIX =>
                ~DotSuffix(unique[j].rval, unique[i].rval)) =>
          unique[i].norm \in Range(final_domains)

C17_DomainPassOnlyQueries ==
    /\ [][AfterSuffixPass => trie' = trie]_vars
    /\ []UncoveredDomainsKept

\* the run is done and two DOMAIN rules, one a subdomain of the other, were
\* both kept
C17_Witness ==
    /\ script = "loon" /\ pc = "DONE"
    /\ \E i, j \in DOMAIN final_domains :
         ProperAncestor(NormValue(final_domains[j]), NormValue(final_domains[i]))

(***************************************************************************)
(* C18  Accounting conservation in loon.py: at DONE every rule left by     *)
(* EXACT_DEDUP is either in exactly one final survivor list, once, or has  *)
(* exactly one removal record, never both and never neither; so            *)
(* len(all_rules) = exact_dup + domain_covered + ip_covered +              *)
(* len(final_rules), and the number of removal records is                  *)
(* domain_covered + ip_covered.                                            *)
(***************************************************************************)
\* how many times a text occurs in a list
Occurrences(list, t) == Cardinality({ i \in DOMAIN list : list[i] = t })

C18_AccountingConserved ==
    (script = "loon" /\ pc = "DONE") =>
      /\ \A i \in DOMAIN unique :
           LET kept == Occurrences(final_domains, unique[i].norm)
                         + Occurrences(final_suffixes, unique[i].norm)
                         + Occurrences(final_ips, unique[i].norm)
               logged == Cardinality({ n \in DOMAIN cover_logs :
                                         cover_logs[n].orig = unique[i].orig })
           IN  kept + logged = 1
      /\ Len(final_rules)
           = Len(final_domains) + Len(final_suffixes) + Len(final_ips)
      /\ Len(all_rules)
           = exact_dup + domain_covered + ip_covered + Len(final_rules)
      /\ Len(cover_logs) = domain_covered + ip_covered

\* a finished run that dropped an exact duplicate, removed a covered rule
\* and kept a rule
C18_Witness ==
    /\ script = "loon" /\ pc = "DONE"
    /\ exact_dup >= 1
    /\ domain_covered + ip_covered >= 1
    /\ final_rules # <<>>

(***************************************************************************)
(* C19  In adguard.py the allow rules ('@@'), the block rules ('||') and   *)
(* the other rules are deduplicated by containment independently: an allow *)
(* rule is removed only because of an allow rule whose domain is a parent  *)
(* of its domain, a block rule only because of such a block rule, and the  *)
(* rules that are neither pass through untouched and are all in the        *)
(* output.                                                                 *)
(***************************************************************************)
IsAllow(r) == StartsWith(r, <<"@", "@">>)

IsBlock(r) == StartsWith(r, <<"|", "|">>)

\* the rules of one list are kept unless a rule of the same list has a
\* domain that is a parent of theirs; kept is the list after containment
\* dedup, removed its removal records
DedupWithinList(prefix, kept, removed) ==
    LET list == WithPrefix(unique_rules, prefix)
    IN  /\ \A i \in DOMAIN kept : StartsWith(kept[i], prefix)
        /\ \A n \in DOMAIN removed :
             /\ StartsWith(removed[n].orig, prefix)
             /\ \E i \in DOMAIN kept :
                  /\ RuleDomain(kept[i]) = removed[n].cites
                  /\ ProperAncestor(removed[n].cites, RuleDomain(removed[n].orig))
        /\ \A i \in DOMAIN list :
             (/\ RuleDomain(list[i]) # <<>>
              /\ \A j \in DOMAIN list :
                   ~ProperAncestor(RuleDomain(list[j]), RuleDomain(list[i]))) =>
               list[i] \in Range(kept)

C19_ListsIndependent ==
    (script = "adguard" /\ pc \in {"WRITE", "DONE"}) =>
      /\ DedupWithinList(<<"@", "@">>, white_final, white_removed)
      /\ DedupWithinList(<<"|", "|">>, black_final, black_removed)
      /\ other_list = SelectSeq(unique_rules,
                                LAMBDA r : ~(IsAllow(r) \/ IsBlock(r)))
      /\ pc = "DONE" =>
           \A i \in DOMAIN unique_rules :
             ~(IsAllow(unique_rules[i]) \/ IsBlock(unique_rules[i])) =>
               unique_rules[i] \in Range(final_rules)

\* a finished run that kept an allow rule although a block rule of the
\* input has a parent of its domain, and that wrote a rule of neither kind
C19_Witness ==
    /\ script = "adguard" /\ pc = "DONE"
    /\ \E i \in DOMAIN white_final, j \in DOMAIN unique_rules :
         /\ IsBlock(unique_rules[j])
         /\ ProperAncestor(RuleDomain(unique_rules[j]), RuleDomain(white_final[i]))
    /\ other_list # <<>>

====
